---- MODULE Spec2Model ----
(***************************************************************************)
(* Model of FinEval: get_eomonth_price (end-of-month price extraction from *)
(* a daily price frame) and get_vang_stock_table_segs (table segment       *)
(* location in a parsed statement), both of src/fineval.py.                *)
(*                                                                         *)
(* Python strings are sequences of character codes, so that str(), zfill, *)
(* concatenation and the lexicographic comparison of month keys are        *)
(* modelled by what they do.  Positions in report_lines are 0-based as in  *)
(* enumerate().                                                            *)
(***************************************************************************)
EXTENDS Integers, Sequences, FiniteSets, TLC

VARIABLES df, start_month, end_month, today, resolved, df_return, pc,
          report_lines, table_segs, seg_pc

vars == <<df, start_month, end_month, today, resolved, df_return, pc,
          report_lines, table_segs, seg_pc>>

eom_vars == <<df, start_month, end_month, today, resolved, df_return, pc>>

seg_vars == <<report_lines, table_segs, seg_pc>>

\* ------------------------------------------------------------------ bounds

\* largest number of rows of the daily frame
MaxRows == 3

\* largest number of lines of the parsed statement
MaxLines == 5

Years == {2024, 2025}

Months == {1, 12}

Days == {3, 28}

Prices == {10, 20}

\* wall-clock (year, month) values read by dt.today()
Todays == {[year |-> 2025, month |-> 1], [year |-> 2025, month |-> 3]}

\* ----------------------------------------------------------------- strings

\* ord('-')
Dash == 45

\* ord('0')
Zero == 48

Min(S) == CHOOSE x \in S : \A y \in S : x <= y

Max(S) == CHOOSE x \in S : \A y \in S : y <= x

\* str(n) of a natural number
RECURSIVE Str(_)
Str(n) == IF n < 10 THEN <<Zero + n>> ELSE Str(n \div 10) \o <<Zero + (n % 10)>>

\* s.zfill(w) of an unsigned digit string
RECURSIVE ZFill(_, _)
ZFill(s, w) == IF Len(s) >= w THEN s ELSE ZFill(<<Zero>> \o s, w)

\* a <= b on Python strings: lexicographic by code point
LexLE(a, b) ==
    LET n == IF Len(a) <= Len(b) THEN Len(a) ELSE Len(b)
        P == {i \in 1..n : a[i] # b[i]}
    IN  IF P = {} THEN Len(a) <= Len(b) ELSE a[Min(P)] < b[Min(P)]

\* the literal 'prior'
Prior == <<112, 114, 105, 111, 114>>

\* the month key "YYYY-MM" a caller passes for (y, m)
MonthKey(y, m) == Str(y) \o <<Dash>> \o ZFill(Str(m), 2)

\* -------------------------------------------------------- get_eomonth_price

\* year_mo column: year string + '-' + zero padded month string
YearMoNoPad(r) == Str(r.year) \o <<Dash>> \o Str(r.month)

YearMo(r) == Str(r.year) \o <<Dash>> \o ZFill(Str(r.month), 2)

\* the index converted to string: str(datetime.date), i.e. ISO YYYY-MM-DD
DateStr(r) ==
    ZFill(Str(r.year), 4) \o <<Dash>> \o ZFill(Str(r.month), 2)
        \o <<Dash>> \o ZFill(Str(r.day), 2)

\* df_price: index date (string), columns price_col, day, year_mo
DfPrice(d) ==
    [i \in 1..Len(d) |->
        [date |-> DateStr(d[i]), price |-> d[i].price,
         day |-> d[i].day, year_mo |-> YearMo(d[i])]]

\* the group keys of groupby('year_mo'), which sorts them
RECURSIVE SortedKeys(_)
SortedKeys(S) ==
    IF S = {} THEN <<>>
    ELSE LET k == CHOOSE x \in S : \A y \in S : LexLE(x, y)
         IN  <<k>> \o SortedKeys(S \ {k})

\* groupby('year_mo')['day'].max(): one (year_mo, day) per month key
GroupMinDay(dfp) ==
    LET keys == SortedKeys({dfp[i].year_mo : i \in 1..Len(dfp)})
    IN  [j \in 1..Len(keys) |->
            [year_mo |-> keys[j],
             day |-> Min({dfp[i].day : i \in {x \in 1..Len(dfp) : dfp[x].year_mo = keys[j]}})]]

GroupMaxDay(dfp) ==
    LET keys == SortedKeys({dfp[i].year_mo : i \in 1..Len(dfp)})
    IN  [j \in 1..Len(keys) |->
            [year_mo |-> keys[j],
             day |-> Max({dfp[i].day : i \in {x \in 1..Len(dfp) : dfp[x].year_mo = keys[j]}})]]

\* df_id_eom: index year_mo, columns day and date = year_mo + '-' + zfill(day)
DfIdEom(dfp) ==
    LET g == GroupMaxDay(dfp)
    IN  [j \in 1..Len(g) |->
            [year_mo |-> g[j].year_mo, day |-> g[j].day,
             date |-> g[j].year_mo \o <<Dash>> \o ZFill(Str(g[j].day), 2)]]

\* the rows of right joined to one left row, in the order of right
RECURSIVE JoinRow(_, _, _)
JoinRow(l, right, j) ==
    IF j > Len(right) THEN <<>>
    ELSE (IF right[j].date = l.date
          THEN <<[date |-> l.date, price |-> l.price, day_x |-> l.day,
                  year_mo |-> l.year_mo, day_y |-> right[j].day]>>
          ELSE <<>>) \o JoinRow(l, right, j + 1)

\* left.merge(right, on='date'): inner join, order of the left keys kept
RECURSIVE Merge(_, _, _)
Merge(left, right, i) ==
    IF i > Len(left) THEN <<>>
    ELSE JoinRow(left[i], right, 1) \o Merge(left, right, i + 1)

\* df_eom: the merge, projected on date, price_col, year_mo
DfEom(d) ==
    LET m == Merge(DfPrice(d), DfIdEom(DfPrice(d)), 1)
    IN  [i \in 1..Len(m) |->
            [date |-> m[i].date, price |-> m[i].price, year_mo |-> m[i].year_mo]]

\* the value of end_month after the 'prior' branch
ResolveEndMonthNoDecrement(e, t) ==
    IF e = Prior
    THEN Str(t.year) \o <<Dash>> \o ZFill(Str(t.month), 2)
    ELSE e

ResolveEndMonth(e, t) ==
    IF e = Prior
    THEN Str(t.year) \o <<Dash>> \o ZFill(Str(t.month - 1), 2)
    ELSE e

\* the rows with start_month <= year_mo <= end_month
FilterRangeStrict(rows, s, e) ==
    SelectSeq(rows, LAMBDA r : LexLE(s, r.year_mo) /\ LexLE(r.year_mo, e) /\ r.year_mo # e)

FilterRangeNoLower(rows, s, e) ==
    SelectSeq(rows, LAMBDA r : LexLE(r.year_mo, e))

FilterRange(rows, s, e) ==
    SelectSeq(rows, LAMBDA r : LexLE(s, r.year_mo) /\ LexLE(r.year_mo, e))

get_eomonth_price(d, s, e, t) == FilterRange(DfEom(d), s, ResolveEndMonth(e, t))

\* ------------------------------------------------ get_vang_stock_table_segs

LineKinds == {"header", "row", "empty", "text"}

\* re.search(header_regex, line) is not None
IsHeader(line) == line = "header"

\* line.startswith("| "); a header line "| Symbol | Name ..." does too
StartsWithBar(line) == line \in {"header", "row"}

\* len(line) == 0
IsEmpty(line) == line = "empty"

\* one iteration of the loop over enumerate(report_lines)
SegStep(st, position, line) ==
    IF IsHeader(line)
    THEN [st EXCEPT !.found = TRUE, !.headers = Append(@, position)]
    ELSE IF st.found /\ StartsWithBar(line)
    THEN st
    ELSE IF st.found /\ IsEmpty(line)
    THEN [st EXCEPT !.found = FALSE, !.lasts = Append(@, position - 1)]
    ELSE st

RECURSIVE SegScan(_, _, _)
SegScan(lines, position, st) ==
    IF position = Len(lines) THEN st
    ELSE SegScan(lines, position + 1, SegStep(st, position, lines[position + 1]))

\* tuple(zip(a, b)): as long as the shorter one
Zip(a, b) ==
    LET n == IF Len(a) <= Len(b) THEN Len(a) ELSE Len(b)
    IN  [i \in 1..n |-> <<a[i], b[i]>>]

get_vang_stock_table_segs(lines) ==
    LET st == SegScan(lines, 0, [found |-> FALSE, headers |-> <<>>, lasts |-> <<>>])
    IN  Zip(st.headers, st.lasts)

\* ------------------------------------------------------------------ actions

Init ==
    /\ df = <<>>
    /\ start_month = MonthKey(2019, 1)
    /\ end_month = Prior
    /\ today = [year |-> 2025, month |-> 1]
    /\ resolved = Prior
    /\ df_return = <<>>
    /\ pc = "input"
    /\ report_lines = <<>>
    /\ table_segs = <<>>
    /\ seg_pc = "input"

\* the caller's daily frame gets one more row (rows arrive in any order)
AddRow(r) ==
    /\ pc = "input"
    /\ Len(df) < MaxRows
    /\ df' = Append(df, r)
    /\ UNCHANGED <<start_month, end_month, today, resolved, df_return, pc>>
    /\ UNCHANGED seg_vars

\* get_eomonth_price(df, s, e) called while the wall clock shows t
Call(s, e, t) ==
    /\ pc = "input"
    /\ e # Prior => t = today
    /\ start_month' = s
    /\ end_month' = e
    /\ today' = t
    /\ resolved' = ResolveEndMonth(e, t)
    /\ df_return' = get_eomonth_price(df, s, e, t)
    /\ pc' = "done"
    /\ UNCHANGED df
    /\ UNCHANGED seg_vars

\* the parsed statement gets one more line
AddLine(k) ==
    /\ seg_pc = "input"
    /\ Len(report_lines) < MaxLines
    /\ report_lines' = Append(report_lines, k)
    /\ UNCHANGED <<table_segs, seg_pc>>
    /\ UNCHANGED eom_vars

CallSegs ==
    /\ seg_pc = "input"
    /\ table_segs' = get_vang_stock_table_segs(report_lines)
    /\ seg_pc' = "done"
    /\ UNCHANGED report_lines
    /\ UNCHANGED eom_vars

RowValues == [year : Years, month : Months, day : Days, price : Prices]

StartMonths == {MonthKey(2024, 1), MonthKey(2024, 12), MonthKey(2025, 1)}

EndMonths == {MonthKey(2024, 12), MonthKey(2025, 12), Prior}

Next ==
    \/ \E r \in RowValues : AddRow(r)
    \/ \E s \in StartMonths, e \in EndMonths, t \in Todays : Call(s, e, t)

Spec == Init /\ [][Next]_vars

NextSegs ==
    \/ \E k \in LineKinds : AddLine(k)
    \/ CallSegs

SpecSegs == Init /\ [][NextSegs]_vars

\* ------------------------------------------------- reading the results back

\* int(s) of a digit string
RECURSIVE DigitsVal(_)
DigitsVal(s) ==
    IF s = <<>> THEN 0
    ELSE 10 * DigitsVal(SubSeq(s, 1, Len(s) - 1)) + (s[Len(s)] - Zero)

DateYear(s) == DigitsVal(SubSeq(s, 1, 4))

DateMonth(s) == DigitsVal(SubSeq(s, 6, 7))

DateDay(s) == DigitsVal(SubSeq(s, 9, 10))

\* months counted from year 0: the chronological order of (year, month)
MonthOrd(y, m) == 12 * y + m

\* the calendar meaning of the range the caller asked for
StartOrd == MonthOrd(DateYear(start_month), DateMonth(start_month))

EndOrd ==
    IF end_month = Prior
    THEN MonthOrd(today.year, today.month) - 1
    ELSE MonthOrd(DateYear(end_month), DateMonth(end_month))

\* the month key of the calendar month before the wall-clock month
PriorKey ==
    IF today.month = 1 THEN MonthKey(today.year - 1, 12)
    ELSE MonthKey(today.year, today.month - 1)

EndKey == IF end_month = Prior THEN PriorKey ELSE end_month

RowInRange(r) ==
    /\ StartOrd <= MonthOrd(r.year, r.month)
    /\ MonthOrd(r.year, r.month) <= EndOrd

SameMonth(r, q) == r.year = q.year /\ r.month = q.month

UniqueDates ==
    \A i, j \in 1..Len(df) :
        (SameMonth(df[i], df[j]) /\ df[i].day = df[j].day) => i = j

\* input row k is on the last day present of its month
IsLastOfMonth(k) ==
    \A j \in 1..Len(df) : SameMonth(df[j], df[k]) => df[j].day <= df[k].day

\* the output rows of the month of input row k
OutOfMonth(k) ==
    {i \in 1..Len(df_return) :
        /\ DateYear(df_return[i].date) = df[k].year
        /\ DateMonth(df_return[i].date) = df[k].month}

\* output row i is input row k: same date, and the price of that row
IsRow(i, k) ==
    /\ DateYear(df_return[i].date) = df[k].year
    /\ DateMonth(df_return[i].date) = df[k].month
    /\ DateDay(df_return[i].date) = df[k].day
    /\ df_return[i].price = df[k].price

DateOrd(s) == 32 * MonthOrd(DateYear(s), DateMonth(s)) + DateDay(s)

\* ------------------------------------------------------------------- claims

\* C1: with unique trade dates, in any row order, every month of the range
\* that has an input row is returned with the date of the input row of the
\* largest day of that month and with the price of that same input row.
C1_MaxDaySelection ==
    (pc = "done" /\ UniqueDates) =>
        \A k \in 1..Len(df) :
            RowInRange(df[k]) =>
                /\ OutOfMonth(k) # {}
                /\ \A i \in OutOfMonth(k) :
                       \E m \in 1..Len(df) :
                           SameMonth(df[m], df[k]) /\ IsLastOfMonth(m) /\ IsRow(i, m)

C1_Witness ==
    /\ pc = "done"
    /\ UniqueDates
    /\ \E a, b \in 1..Len(df) :
           /\ a < b
           /\ SameMonth(df[a], df[b])
           /\ df[a].day > df[b].day
           /\ df[a].price # df[b].price
           /\ RowInRange(df[a])
           /\ \E i \in 1..Len(df_return) : IsRow(i, a)

\* C2: every returned row has a month key k, the YYYY-MM of its date, with
\* start_month <= k <= resolved end_month in lexicographic order, and every
\* end-of-month row of the input whose key lies in that range is returned.
C2_RangeContainment ==
    pc = "done" =>
        /\ \A i \in 1..Len(df_return) :
               /\ LexLE(start_month, SubSeq(df_return[i].date, 1, 7))
               /\ LexLE(SubSeq(df_return[i].date, 1, 7), EndKey)
        /\ \A k \in 1..Len(df) :
               (/\ IsLastOfMonth(k)
                /\ LexLE(start_month, MonthKey(df[k].year, df[k].month))
                /\ LexLE(MonthKey(df[k].year, df[k].month), EndKey))
               => \E i \in 1..Len(df_return) : IsRow(i, k)

C2_Witness ==
    /\ pc = "done"
    /\ df_return # <<>>
    /\ \E k \in 1..Len(df) : ~RowInRange(df[k]) /\ MonthOrd(df[k].year, df[k].month) > EndOrd
    /\ \E k \in 1..Len(df) : ~RowInRange(df[k]) /\ MonthOrd(df[k].year, df[k].month) < StartOrd

\* C3: with unique trade dates the output holds exactly one row for each month
\* of the range that has an input row, and no row of any other month.
C3_ExactlyOnePerMonth ==
    (pc = "done" /\ UniqueDates) =>
        /\ \A k \in 1..Len(df) :
               Cardinality(OutOfMonth(k)) = (IF RowInRange(df[k]) THEN 1 ELSE 0)
        /\ \A i \in 1..Len(df_return) :
               \E k \in 1..Len(df) : i \in OutOfMonth(k)

C3_Witness ==
    /\ pc = "done"
    /\ UniqueDates
    /\ Len(df) = 3
    /\ Len(df_return) = 1
    /\ \E a, b \in 1..Len(df) : a # b /\ SameMonth(df[a], df[b]) /\ RowInRange(df[a])
    /\ \E c \in 1..Len(df) : ~RowInRange(df[c])

\* C4: the returned rows are in ascending order of date, also when the input
\* rows are not sorted by date (stated for the series that keep the input
\* invariant of unique trade dates, which is where it already fails).
C4_AscendingOutput ==
    (pc = "done" /\ UniqueDates) =>
        \A i, j \in 1..Len(df_return) :
            i < j => DateOrd(df_return[i].date) <= DateOrd(df_return[j].date)

\* the permutations of the rows of a frame
RowOrders(d) ==
    {[i \in 1..Len(d) |-> d[f[i]]] :
        f \in {g \in [1..Len(d) -> 1..Len(d)] : \A a, b \in 1..Len(d) : g[a] = g[b] => a = b}}

\* C5: every permutation of the input rows gives, for the same start_month
\* and end_month, the same output sequence (stated for the series that keep
\* the input invariant of unique trade dates, which is where it already fails).
C5_PermutationInvariant ==
    (pc = "done" /\ UniqueDates) =>
        \A p \in RowOrders(df) :
            get_eomonth_price(p, start_month, end_month, today) = df_return

\* C6: end_month = 'prior' in January of year Y resolves to the month key of
\* December of year Y-1.
C6_PriorInJanuary ==
    (pc = "done" /\ end_month = Prior /\ today.month = 1) =>
        resolved = MonthKey(today.year - 1, 12)

\* C7: the output holds at most one row per month key, also when the input
\* has duplicate trade dates.
C7_AtMostOnePerMonth ==
    pc = "done" =>
        \A i, j \in 1..Len(df_return) :
            SubSeq(df_return[i].date, 1, 7) = SubSeq(df_return[j].date, 1, 7) => i = j

\* C8: when no input row lies in a month of the range (empty input, or
\* start_month after end_month), the call returns an empty output.
C8_EmptyResult ==
    (pc = "done" /\ \A k \in 1..Len(df) : ~RowInRange(df[k])) => df_return = <<>>

C8_Witness ==
    /\ pc = "done"
    /\ df # <<>>
    /\ StartOrd > EndOrd
    /\ \E k \in 1..Len(df) : MonthOrd(df[k].year, df[k].month) <= EndOrd
    /\ df_return = <<>>

\* the 0-based positions of the header lines, in order
HeaderPositions ==
    LET H == {p \in 0..(Len(report_lines) - 1) : IsHeader(report_lines[p + 1])}
        F[S \in SUBSET H] ==
            IF S = {} THEN <<>> ELSE <<Min(S)>> \o F[S \ {Min(S)}]
    IN  F[H]

\* a table row: starts with "| " and is no header
IsTableRow(p) == StartsWithBar(report_lines[p + 1]) /\ ~IsHeader(report_lines[p + 1])

\* the last position of the run of table rows that follows the header at s
RunEnd(s) ==
    Max({e \in s..(Len(report_lines) - 1) : \A p \in (s + 1)..e : IsTableRow(p)})

\* C9: one pair (s, e) per header line, in order, s the position of that
\* header and e the last position of the run of table rows following it.
C9_SegsMatchHeaders ==
    seg_pc = "done" =>
        /\ Len(table_segs) = Len(HeaderPositions)
        /\ \A k \in 1..Len(table_segs) :
               table_segs[k] = <<HeaderPositions[k], RunEnd(HeaderPositions[k])>>

\* C10: with end_month = 'prior' in January of year Y the call returns what
\* it returns with end_month the key of December of Y-1: every end-of-month
\* row from start_month up to December of Y-1, and no row of year Y.
C10_PriorJanuaryEquivalent ==
    (pc = "done" /\ end_month = Prior /\ today.month = 1) =>
        /\ df_return = get_eomonth_price(df, start_month, MonthKey(today.year - 1, 12), today)
        /\ \A i \in 1..Len(df_return) : DateYear(df_return[i].date) < today.year
        /\ \A k \in 1..Len(df) :
               (/\ IsLastOfMonth(k)
                /\ StartOrd <= MonthOrd(df[k].year, df[k].month)
                /\ df[k].year < today.year)
               => \E i \in 1..Len(df_return) : IsRow(i, k)

C10_Witness ==
    /\ pc = "done"
    /\ end_month = Prior
    /\ today.month = 1
    /\ \E k \in 1..Len(df) : df[k].year = today.year
    /\ \E k \in 1..Len(df) :
           /\ df[k].year = today.year - 1
           /\ df[k].month = 12
           /\ \E i \in 1..Len(df_return) : IsRow(i, k)

====
